---- MODULE Spec2Model ----
(***************************************************************************)
(* Model of the comparison utilities of serpentTools:                      *)
(*   serpentTools/utils.py : directCompare, getCommonKeys,                 *)
(*                           getKeyMatchingShapes                          *)
(*   serpentTools/objects/base.py : BaseObject.compare                     *)
(* One call is modelled per behaviour: Init draws the function and its     *)
(* arguments, the actions execute the body of the function.  For           *)
(* BaseObject.compare a second caller can run a call that interleaves      *)
(* with the first at statement boundaries.                                 *)
(*                                                                         *)
(* Numbers are exact decimal-scaled rationals  p/q * 10^e  so that the     *)
(* division guard 1E-8 and percent tolerances of order 1..10 live in the   *)
(* same model without leaving the 32 bit integers of the model checker.    *)
(* Floating point rounding is not modelled.                                *)
(***************************************************************************)
EXTENDS Integers, Sequences, FiniteSets, TLC

VARIABLES fn, args, pc, ret, returned, raised, log,
          todo, missing, badTypes, badShapes, goodKeys

\* BaseObject.compare: the shared setting rc['verbosity'] and its value
\* before any call, and per caller the arguments, the position, the local
\* variables, the outcome, the steps taken so far; overlapped records that
\* a caller took a step while another call was in progress
VARIABLES rc, rc0, calls, cpc, loc, out, trace, overlapped

utilVars == << fn, args, pc, ret, returned, raised, log,
               todo, missing, badTypes, badShapes, goodKeys >>

cmpVars == << rc, rc0, calls, cpc, loc, out, trace, overlapped >>

vars == << utilVars, cmpVars >>

(***************************************************************************)
(* Bounds                                                                  *)
(***************************************************************************)
\* longest array handed to directCompare
MaxLen == 2
\* longest key iterable handed to getCommonKeys
MaxIter == 2

(***************************************************************************)
(* Exact arithmetic on numbers  p/q * 10^e  (q > 0)                        *)
(***************************************************************************)
RECURSIVE Pow10(_)
Pow10(k) == IF k = 0 THEN 1 ELSE 10 * Pow10(k - 1)

\* floor(n / 10^k), also for k so large that 10^k is not representable
Shr(n, k) == IF k >= 10 THEN (IF n >= 0 THEN 0 ELSE -1) ELSE n \div Pow10(k)

Num(p, e) == [p |-> p, q |-> 1, e |-> e]

MinInt(a, b) == IF a <= b THEN a ELSE b

\* x < y
Lt(x, y) ==
    LET A == x.p * y.q
        B == y.p * x.q
    IN  IF x.e >= y.e THEN A <= Shr(B - 1, x.e - y.e)
                      ELSE Shr(A, y.e - x.e) < B

Le(x, y) == ~Lt(y, x)
Gt(x, y) == Lt(y, x)
Ge(x, y) == ~Lt(x, y)
NumEq(x, y) == ~Lt(x, y) /\ ~Lt(y, x)

\* x - y for plain values (q = 1)
Sub(x, y) ==
    IF y.p = 0 THEN x
    ELSE IF x.p = 0 THEN [y EXCEPT !.p = 0 - y.p]
    ELSE LET e == MinInt(x.e, y.e)
         IN  [p |-> x.p * Pow10(x.e - e) - y.p * Pow10(y.e - e),
              q |-> 1, e |-> e]

\* numpy.fabs
fabs(x) == [x EXCEPT !.p = IF @ < 0 THEN 0 - @ ELSE @]

\* x * 100
Times100(x) == [x EXCEPT !.e = @ + 2]

\* x / y for y > 0
Div(x, y) == [p |-> x.p * y.q, q |-> x.q * y.p, e |-> x.e - y.e]

(***************************************************************************)
(* utils.py constants                                                      *)
(***************************************************************************)
LOWER_LIM_DIVISION == Num(1, -8)

COMPARE_NUMERICS == {"float", "int"}

(***************************************************************************)
(* directCompare: pure parts                                               *)
(***************************************************************************)
\* variant: int and float are not treated as compatible
typesDifferStrict(type0, type1) == type0 # type1

\* condition of the first if: the two types cannot be compared
typesDiffer(type0, type1) ==
    (type0 \notin COMPARE_NUMERICS \/ type1 \notin COMPARE_NUMERICS)
        /\ type0 # type1

\* variant: the mismatch is reported but the call still succeeds
strCompareLenient(obj0, obj1) ==
    IF obj0.val # obj1.val
    THEN [msg |-> "notIdentical", ret |-> TRUE]
    ELSE [msg |-> "identical", ret |-> TRUE]

\* string branch: notification and return value
strCompare(obj0, obj1) ==
    IF obj0.val # obj1.val
    THEN [msg |-> "notIdentical", ret |-> FALSE]
    ELSE [msg |-> "identical", ret |-> TRUE]

\* diff = fabs(obj0 - obj1) * 100, element-wise for arrays
absDiff(v0, v1) == Times100(fabs(Sub(v0, v1)))

\* variant: the guard is taken against zero instead of LOWER_LIM_DIVISION
nonZIAboveZero(arr0) == {i \in DOMAIN arr0 : Gt(arr0[i], Num(0, 0))}

\* nonZI = where(obj0 > LOWER_LIM_DIVISION)
nonZI(arr0) == {i \in DOMAIN arr0 : Gt(arr0[i], LOWER_LIM_DIVISION)}

\* diff after  diff[nonZI] /= obj0[nonZI]
arrayDiff(arr0, arr1) ==
    LET diff == [i \in DOMAIN arr0 |-> absDiff(arr0[i], arr1[i])]
    IN  [i \in DOMAIN arr0 |->
            IF i \in nonZI(arr0) THEN Div(diff[i], arr0[i]) ELSE diff[i]]

\* diff after  elif obj0 > LOWER_LIM_DIVISION: diff /= obj0
scalarDiff(v0, v1) ==
    LET diff == absDiff(v0, v1)
    IN  IF Gt(v0, LOWER_LIM_DIVISION) THEN Div(diff, v0) ELSE diff

\* variant: the first element is taken instead of the maximum
arrFirst(diff) == diff[1]

\* diff.max(): reduction over the elements, left to right
RECURSIVE arrMax(_)
arrMax(diff) ==
    IF Len(diff) = 1 THEN diff[1]
    ELSE LET m == arrMax(SubSeq(diff, 1, Len(diff) - 1))
         IN  IF Lt(m, diff[Len(diff)]) THEN diff[Len(diff)] ELSE m

maxDiffOf(obj0, obj1) ==
    IF obj0.type = "ndarray" THEN arrMax(arrayDiff(obj0.val, obj1.val))
    ELSE scalarDiff(obj0.val, obj1.val)

\* variant: the upper limit itself is still accepted
ladderStrictUpper(maxDiff, lower, upper) ==
    IF Lt(maxDiff, LOWER_LIM_DIVISION)
    THEN [msg |-> "identical", ret |-> TRUE]
    ELSE IF Le(maxDiff, lower)
    THEN [msg |-> "acceptableLow", ret |-> TRUE]
    ELSE IF Gt(maxDiff, upper)
    THEN [msg |-> "outsideTols", ret |-> FALSE]
    ELSE [msg |-> "acceptableHigh", ret |-> TRUE]

\* variant: a difference of exactly LOWER_LIM_DIVISION counts as identical
ladderIdenticalLe(maxDiff, lower, upper) ==
    IF Le(maxDiff, LOWER_LIM_DIVISION)
    THEN [msg |-> "identical", ret |-> TRUE]
    ELSE IF Le(maxDiff, lower)
    THEN [msg |-> "acceptableLow", ret |-> TRUE]
    ELSE IF Ge(maxDiff, upper)
    THEN [msg |-> "outsideTols", ret |-> FALSE]
    ELSE [msg |-> "acceptableHigh", ret |-> TRUE]

\* variant: the lower limit is tested before the identity test
ladderLowFirst(maxDiff, lower, upper) ==
    IF Le(maxDiff, lower)
    THEN [msg |-> "acceptableLow", ret |-> TRUE]
    ELSE IF Lt(maxDiff, LOWER_LIM_DIVISION)
    THEN [msg |-> "identical", ret |-> TRUE]
    ELSE IF Ge(maxDiff, upper)
    THEN [msg |-> "outsideTols", ret |-> FALSE]
    ELSE [msg |-> "acceptableHigh", ret |-> TRUE]

\* the four return statements of the numeric branch
ladder(maxDiff, lower, upper) ==
    IF Lt(maxDiff, LOWER_LIM_DIVISION)
    THEN [msg |-> "identical", ret |-> TRUE]
    ELSE IF Le(maxDiff, lower)
    THEN [msg |-> "acceptableLow", ret |-> TRUE]
    ELSE IF Ge(maxDiff, upper)
    THEN [msg |-> "outsideTols", ret |-> FALSE]
    ELSE [msg |-> "acceptableHigh", ret |-> TRUE]

(***************************************************************************)
(* Arguments of directCompare                                              *)
(***************************************************************************)
PyStr(s) == [type |-> "str", val |-> s]
PyInt(n) == [type |-> "int", val |-> Num(n, 0)]
PyFloat(x) == [type |-> "float", val |-> x]
PyArray(a) == [type |-> "ndarray", val |-> a]
PyOther(t) == [type |-> t, val |-> <<>>]

\* floats around the division guard: -5e-11, 0, 5e-11, 1e-8, 2e-8, 2.1e-8
\* and floats of order one: 1.0, 1.05, 1.1
TinyFloats == {Num(n, -11) : n \in {-5, 0, 5, 1000, 2000, 2100}}
UnitFloats == {Num(n, -2) : n \in {100, 105, 110}}
ArrVals == {Num(n, -11) : n \in {-5, 0, 5, 2000, 2100}}

StrObjs == {PyStr(s) : s \in {"a", "b"}}
IntObjs == {PyInt(n) : n \in {-1, 0, 1, 2}}
FloatObjs == {PyFloat(x) : x \in TinyFloats \cup UnitFloats}
ArrayObjs == UNION {{PyArray(a) : a \in [1..n -> ArrVals]} : n \in 1..MaxLen}
PyTypes == {"str", "int", "float", "ndarray", "list", "dict"}

ObjsOf(t) ==
    CASE t = "str" -> StrObjs
      [] t = "int" -> IntObjs
      [] t = "float" -> FloatObjs
      [] t = "ndarray" -> ArrayObjs
      [] OTHER -> {PyOther(t)}

\* the subtraction of the two values stays within the integers of the model
Alignable(x, y) ==
    x.p = 0 \/ y.p = 0 \/ (x.e - y.e <= 2 /\ y.e - x.e <= 2)

\* pairs the call is modelled for: arrays of one shape, values of one scale
Comparable(o0, o1) ==
    /\ (o0.type = "ndarray" /\ o1.type = "ndarray") => Len(o0.val) = Len(o1.val)
    /\ (o0.type \in COMPARE_NUMERICS /\ o1.type \in COMPARE_NUMERICS)
            => Alignable(o0.val, o1.val)

\* tolerances in percent: 0, 1e-8, 5, 10
Tols == {Num(0, 0), Num(1, -8), Num(5, 0), Num(10, 0)}

ValidTols(lower, upper) == Le(lower, upper)

(***************************************************************************)
(* directCompare: steps                                                    *)
(***************************************************************************)
Locals == UNCHANGED << todo, missing, badTypes, badShapes, goodKeys >>

\* the utilities of utils.py leave the state of BaseObject.compare alone
NoCompare == UNCHANGED cmpVars

\* lines 333-339
DCCheckTypes ==
    /\ fn = "directCompare" /\ pc = "start"
    /\ IF typesDiffer(args.obj0.type, args.obj1.type)
       THEN /\ log' = Append(log, [msg |-> "differentTypes"])
            /\ ret' = FALSE
            /\ returned' = TRUE
            /\ pc' = "done"
       ELSE /\ pc' = "branch"
            /\ UNCHANGED << log, ret, returned >>
    /\ UNCHANGED << fn, args, raised >>
    /\ Locals
    /\ NoCompare

\* lines 340-345
DCString ==
    /\ fn = "directCompare" /\ pc = "branch"
    /\ args.obj0.type = "str"
    /\ LET r == strCompare(args.obj0, args.obj1)
       IN  /\ log' = Append(log, [msg |-> r.msg])
           /\ ret' = r.ret
    /\ returned' = TRUE
    /\ pc' = "done"
    /\ UNCHANGED << fn, args, raised >>
    /\ Locals
    /\ NoCompare

\* lines 347-365
DCNumeric ==
    /\ fn = "directCompare" /\ pc = "branch"
    /\ args.obj0.type \in {"float", "int", "ndarray"}
    /\ LET r == ladder(maxDiffOf(args.obj0, args.obj1), args.lower, args.upper)
       IN  /\ log' = Append(log, [msg |-> r.msg])
           /\ ret' = r.ret
    /\ returned' = TRUE
    /\ pc' = "done"
    /\ UNCHANGED << fn, args, raised >>
    /\ Locals
    /\ NoCompare

\* lines 366-370
DCRaise ==
    /\ fn = "directCompare" /\ pc = "branch"
    /\ args.obj0.type \notin {"str", "float", "int", "ndarray"}
    /\ raised' = "TypeError"
    /\ pc' = "done"
    /\ UNCHANGED << fn, args, ret, returned, log >>
    /\ Locals
    /\ NoCompare

InitDC ==
    /\ fn = "directCompare"
    /\ \E t0 \in PyTypes, t1 \in PyTypes :
         \E o0 \in ObjsOf(t0), o1 \in ObjsOf(t1), lo \in Tols, up \in Tols :
            /\ Comparable(o0, o1)
            /\ ValidTols(lo, up)
            /\ args = [obj0 |-> o0, obj1 |-> o1, lower |-> lo, upper |-> up]
    /\ ret = FALSE
    /\ todo = {}

(***************************************************************************)
(* getCommonKeys                                                           *)
(***************************************************************************)
Keys == {"", "a", "b"}

\* set(d.keys()) for a dict, set(d) for any other iterable of keys
keySetOf(d) ==
    IF d.type = "dict" THEN DOMAIN d.val
    ELSE {d.val[i] : i \in DOMAIN d.val}

\* variant: the keys of the first collection are returned
intersectionFirst(s0, s1) == s0

\* s0.intersection(s1)
intersection(s0, s1) == s0 \cap s1

\* s0.symmetric_difference(s1)
symmetric_difference(s0, s1) == (s0 \ s1) \cup (s1 \ s0)

\* s0.difference(s1)
difference(s0, s1) == s0 \ s1

DictObjs == UNION {{[type |-> "dict", val |-> f] : f \in [S -> {0}]} : S \in SUBSET Keys}
IterObjs == UNION {{[type |-> "list", val |-> q] : q \in [1..n -> Keys]} : n \in 0..MaxIter}

KeyObjsOf(t) == IF t = "dict" THEN DictObjs ELSE IterObjs

\* lines 284-295
GetCommonKeys ==
    /\ fn = "getCommonKeys" /\ pc = "start"
    /\ LET s0 == keySetOf(args.d0)
           s1 == keySetOf(args.d1)
           common == intersection(s0, s1)
           miss == symmetric_difference(s0, s1)
       IN  /\ log' = IF miss # {}
                     THEN Append(log, [msg |-> "logMissingKeys",
                                       in0 |-> difference(s0, s1),
                                       in1 |-> difference(s1, s0)])
                     ELSE log
           /\ ret' = common
    /\ returned' = TRUE
    /\ pc' = "done"
    /\ UNCHANGED << fn, args, raised >>
    /\ Locals
    /\ NoCompare

InitCK ==
    /\ fn = "getCommonKeys"
    /\ \E t0 \in {"dict", "list"}, t1 \in {"dict", "list"} :
         \E c0 \in KeyObjsOf(t0), c1 \in KeyObjsOf(t1) :
            args = [d0 |-> c0, d1 |-> c1]
    /\ ret = {}
    /\ todo = {}

(***************************************************************************)
(* getKeyMatchingShapes                                                    *)
(***************************************************************************)
\* values stored in the maps: their type and, for arrays, their shape
MapVals ==
    {[type |-> "float", shape |-> <<>>], [type |-> "str", shape |-> <<>>]}
    \cup {[type |-> "ndarray", shape |-> sh] : sh \in {<<2>>, <<3>>, <<2, 3>>}}

MapKeys == {"", "a"}

Maps == UNION {[S -> MapVals] : S \in SUBSET MapKeys}

\* truth value of a key, as any() sees it
truthy(key) == key # ""

\* any(missing[i])
any(keys) == \E key \in keys : truthy(key)

\* variant: the shapes of arrays are not looked at
classifyNoShape(key, map0, map1) ==
    IF key \notin DOMAIN map0 \/ key \notin DOMAIN map1 THEN "missing"
    ELSE IF map0[key].type # map1[key].type THEN "badType"
    ELSE "good"

\* what the loop body does with one key
classify(key, map0, map1) ==
    IF key \notin DOMAIN map0 \/ key \notin DOMAIN map1 THEN "missing"
    ELSE IF map0[key].type # map1[key].type THEN "badType"
    ELSE IF map0[key].type = "ndarray" /\ map0[key].shape # map1[key].shape
    THEN "badShape"
    ELSE "good"

\* lines 402-419, one iteration
KSLoop ==
    /\ fn = "getKeyMatchingShapes" /\ pc = "start"
    /\ \E key \in todo :
        LET c == classify(key, args.map0, args.map1)
            v0 == args.map0[key]
            v1 == args.map1[key]
        IN  /\ todo' = todo \ {key}
            /\ missing' =
                 IF c = "missing"
                 THEN << IF key \notin DOMAIN args.map0
                         THEN missing[1] \cup {key} ELSE missing[1],
                         IF key \notin DOMAIN args.map1
                         THEN missing[2] \cup {key} ELSE missing[2] >>
                 ELSE missing
            /\ badTypes' =
                 IF c = "badType"
                 THEN (key :> << v0.type, v1.type >>) @@ badTypes
                 ELSE badTypes
            /\ badShapes' =
                 IF c = "badShape"
                 THEN (key :> << v0.shape, v1.shape >>) @@ badShapes
                 ELSE badShapes
            /\ goodKeys' = IF c = "good" THEN goodKeys \cup {key} ELSE goodKeys
    /\ UNCHANGED << fn, args, pc, ret, returned, raised, log >>
    /\ NoCompare

\* variant: the shape report is raised before the type report
reportsShapesFirst(mis, bTypes, bShapes) ==
    (IF any(mis[1]) \/ any(mis[2])
     THEN << [msg |-> "logMissingKeys", in0 |-> mis[1], in1 |-> mis[2]] >>
     ELSE <<>>)
    \o (IF DOMAIN bShapes # {}
        THEN << [msg |-> "logBadShapes", keys |-> DOMAIN bShapes] >>
        ELSE <<>>)
    \o (IF DOMAIN bTypes # {}
        THEN << [msg |-> "logBadTypes", keys |-> DOMAIN bTypes] >>
        ELSE <<>>)

\* the notifications raised after the loop, in order
reports(mis, bTypes, bShapes) ==
    (IF any(mis[1]) \/ any(mis[2])
     THEN << [msg |-> "logMissingKeys", in0 |-> mis[1], in1 |-> mis[2]] >>
     ELSE <<>>)
    \o (IF DOMAIN bTypes # {}
        THEN << [msg |-> "logBadTypes", keys |-> DOMAIN bTypes] >>
        ELSE <<>>)
    \o (IF DOMAIN bShapes # {}
        THEN << [msg |-> "logBadShapes", keys |-> DOMAIN bShapes] >>
        ELSE <<>>)

\* lines 421-428
KSReport ==
    /\ fn = "getKeyMatchingShapes" /\ pc = "start"
    /\ todo = {}
    /\ log' = log \o reports(missing, badTypes, badShapes)
    /\ ret' = goodKeys
    /\ returned' = TRUE
    /\ pc' = "done"
    /\ UNCHANGED << fn, args, raised >>
    /\ Locals
    /\ NoCompare

InitKS ==
    /\ fn = "getKeyMatchingShapes"
    /\ \E ks \in SUBSET Keys, m0 \in Maps, m1 \in Maps :
         /\ args = [keySet |-> ks, map0 |-> m0, map1 |-> m1]
         /\ todo = ks
    /\ ret = {}

(***************************************************************************)
(* Specification                                                           *)
(***************************************************************************)
\* no call of BaseObject.compare is under way
IdleCompare ==
    /\ rc = "warning" /\ rc0 = "warning"
    /\ calls = << >> /\ cpc = << >> /\ loc = << >> /\ out = << >>
    /\ trace = << >>
    /\ overlapped = FALSE

Init ==
    /\ IdleCompare
    /\ pc = "start"
    /\ returned = FALSE
    /\ raised = ""
    /\ log = <<>>
    /\ missing = << {}, {} >>
    /\ badTypes = << >>
    /\ badShapes = << >>
    /\ goodKeys = {}
    /\ (InitDC \/ InitCK \/ InitKS)

Next ==
    \/ DCCheckTypes
    \/ DCString
    \/ DCNumeric
    \/ DCRaise
    \/ GetCommonKeys
    \/ KSLoop
    \/ KSReport

Spec == Init /\ [][Next]_vars

(***************************************************************************)
(* objects/base.py: BaseObject.compare, pure parts                         *)
(***************************************************************************)
DEF_COMP_LOWER == 0
DEF_COMP_UPPER == 10
DEF_COMP_SIGMA == 2

\* float(x): the value of x as a float
pyFloat(x) == [type |-> "float", val |-> x.val]

\* int(x): x truncated towards zero
pyInt(x) ==
    LET v == x.val
        n == IF v.e >= 0 THEN v.p * Pow10(v.e)
             ELSE IF v.p >= 0 THEN v.p \div Pow10(0 - v.e)
             ELSE 0 - ((0 - v.p) \div Pow10(0 - v.e))
    IN  PyInt(n)

\* variant: sigma is converted but not clamped
clampSigmaNoFloor(sigma) == pyInt(sigma)

\* max(0, int(sigma))
clampSigma(sigma) ==
    LET n == pyInt(sigma)
    IN  IF Lt(n.val, Num(0, 0)) THEN PyInt(0) ELSE n

\* the first of upper, lower, sigma that is negative, "" when none is
firstNegative(upper, lower, sigma) ==
    IF Lt(upper.val, Num(0, 0)) THEN "upper"
    ELSE IF Lt(lower.val, Num(0, 0)) THEN "lower"
    ELSE IF Lt(sigma.val, Num(0, 0)) THEN "sigma"
    ELSE ""

\* the classes of base.py, a class Reader(BaseObject) that supplies
\* _compare, and str as a class outside the hierarchy
Classes == {"object", "str", "BaseObject", "NamedObject", "DetectorBase",
            "Reader"}

\* base class of a class
Parent(cls) ==
    CASE cls = "BaseObject" -> "object"
      [] cls = "NamedObject" -> "BaseObject"
      [] cls = "DetectorBase" -> "NamedObject"
      [] cls = "Reader" -> "BaseObject"
      [] OTHER -> "object"

RECURSIVE issubclass(_, _)
issubclass(cls, of) ==
    IF cls = of THEN TRUE
    ELSE IF cls = "object" THEN FALSE
    ELSE issubclass(Parent(cls), of)

\* variant: a relation in either direction is accepted
compatibleEitherWay(selfCls, otherCls) ==
    issubclass(otherCls, selfCls) \/ issubclass(selfCls, otherCls)

\* isinstance(other, self.__class__) or
\* issubclass(other.__class__, self.__class__)
compatible(selfCls, otherCls) ==
    issubclass(otherCls, selfCls) \/ issubclass(otherCls, selfCls)

\* the class supplies its own _compare
overrides(cls) == cls = "Reader"

\* what self._compare does: the outcome of the supplied routine, or the
\* NotImplementedError of BaseObject._compare
compareOutcome(call) ==
    IF overrides(call.self) THEN call.cmpOutcome ELSE "NotImplementedError"

\* variant: the statement order with the class check before the
\* non-negativity check
followsClassFirst(p) ==
    CASE p = "start" -> "order"
      [] p = "order" -> "check"
      [] p = "check" -> "nonneg"
      [] p = "nonneg" -> "save"
      [] p = "save" -> "override"
      [] p = "override" -> "premsg"
      [] p = "premsg" -> "compare"
      [] p = "compare" -> "restore"
      [] OTHER -> "done"

\* the statement that follows statement p of compare when p neither
\* raises nor is skipped
follows(p) ==
    CASE p = "start" -> "order"
      [] p = "order" -> "nonneg"
      [] p = "nonneg" -> "check"
      [] p = "check" -> "save"
      [] p = "save" -> "override"
      [] p = "override" -> "premsg"
      [] p = "premsg" -> "compare"
      [] p = "compare" -> "restore"
      [] OTHER -> "done"

\* variant: the saved value is never written back
restoredNever(current, previousVerb) == current

\* rc['verbosity'] after  if previousVerb is not None: rc[...] = previousVerb
restored(current, previousVerb) ==
    IF previousVerb # "None" THEN previousVerb ELSE current

(***************************************************************************)
(* BaseObject.compare: arguments                                           *)
(***************************************************************************)
\* lower and upper: -1, 0, 2.5, 10
CmpTols == {PyInt(-1), PyInt(DEF_COMP_LOWER), PyFloat(Num(25, -1)),
            PyInt(DEF_COMP_UPPER)}

\* sigma: -1, -0.5, 2, 2.7
CmpSigmas == {PyInt(-1), PyFloat(Num(-5, -1)), PyInt(DEF_COMP_SIGMA),
              PyFloat(Num(27, -1))}

SelfClasses == {"BaseObject", "NamedObject", "Reader"}
OtherClasses == {"str", "BaseObject", "NamedObject", "DetectorBase", "Reader"}

\* values of rc['verbosity'] before the call, and of the verbosity argument
RcLevels == {"warning", "error"}
Verbosities == {"None", "debug", "error"}

\* outcomes of a supplied _compare and of formatting the preamble
CmpOutcomes == {"True", "False", "raise"}
PreOutcomes == {"ok", "raise"}

CallRecords ==
    [self : SelfClasses, other : OtherClasses,
     lower : CmpTols, upper : CmpTols, sigma : CmpSigmas,
     verbosity : Verbosities, cmpOutcome : CmpOutcomes,
     preOutcome : PreOutcomes]

\* any call; the outcome of _compare is drawn only where it is supplied
FullCalls ==
    {c \in CallRecords : ~overrides(c.self) => c.cmpOutcome = "raise"}

\* calls with the default tolerances on two objects of one class
PlainCalls ==
    {c \in FullCalls :
        /\ c.self \in {"BaseObject", "Reader"} /\ c.other = c.self
        /\ c.lower = PyInt(DEF_COMP_LOWER) /\ c.upper = PyInt(DEF_COMP_UPPER)
        /\ c.sigma = PyInt(DEF_COMP_SIGMA)}

(***************************************************************************)
(* BaseObject.compare: steps of caller c                                   *)
(***************************************************************************)
NoUtils == UNCHANGED utilVars

\* caller c moves to statement p; a step taken while another call is in
\* progress is recorded
Goto(c, p) ==
    /\ cpc' = [cpc EXCEPT ![c] = p]
    /\ overlapped' = (overlapped
                        \/ \E d \in DOMAIN calls :
                              d # c /\ cpc[d] \notin {"start", "done"})

Raise(c, exc, names) ==
    /\ out' = [out EXCEPT ![c].exc = exc, ![c].names = names]
    /\ Goto(c, "done")

Did(c, event) == trace' = [trace EXCEPT ![c] = Append(@, event)]

\* lines 69-71
Convert(c) ==
    /\ cpc[c] = "start"
    /\ loc' = [loc EXCEPT ![c].upper = pyFloat(@),
                          ![c].lower = pyFloat(@),
                          ![c].sigma = clampSigma(@)]
    /\ Goto(c, follows("start"))
    /\ UNCHANGED << rc, rc0, calls, out, trace >>
    /\ NoUtils

\* lines 72-75
OrderCheck(c) ==
    /\ cpc[c] = "order"
    /\ Did(c, "orderCheck")
    /\ IF Lt(loc[c].upper.val, loc[c].lower.val)
       THEN Raise(c, "ValueError", <<>>)
       ELSE Goto(c, follows("order")) /\ UNCHANGED out
    /\ UNCHANGED << rc, rc0, calls, loc >>
    /\ NoUtils

\* lines 76-80
NonNegCheck(c) ==
    /\ cpc[c] = "nonneg"
    /\ Did(c, "nonNegCheck")
    /\ IF firstNegative(loc[c].upper, loc[c].lower, loc[c].sigma) # ""
       THEN Raise(c, "ValueError", <<>>)
       ELSE Goto(c, follows("nonneg")) /\ UNCHANGED out
    /\ UNCHANGED << rc, rc0, calls, loc >>
    /\ NoUtils

\* lines 82, 102-110
CheckCompareObj(c) ==
    /\ cpc[c] = "check"
    /\ Did(c, "classCheck")
    /\ IF ~compatible(calls[c].self, calls[c].other)
       THEN Raise(c, "TypeError", << calls[c].other, calls[c].self >>)
       ELSE Goto(c, follows("check")) /\ UNCHANGED out
    /\ UNCHANGED << rc, rc0, calls, loc >>
    /\ NoUtils

\* lines 84-86
SaveVerbosity(c) ==
    /\ cpc[c] = "save"
    /\ IF calls[c].verbosity # "None"
       THEN /\ loc' = [loc EXCEPT ![c].previousVerb = rc]
            /\ Goto(c, follows("save"))
       ELSE /\ loc' = [loc EXCEPT ![c].previousVerb = "None"]
            /\ Goto(c, follows("override"))
    /\ UNCHANGED << rc, rc0, calls, out, trace >>
    /\ NoUtils

\* line 87
Override(c) ==
    /\ cpc[c] = "override"
    /\ rc' = calls[c].verbosity
    /\ Did(c, "override")
    /\ Goto(c, follows("override"))
    /\ UNCHANGED << rc0, calls, loc, out >>
    /\ NoUtils

\* lines 89, 112-125
LogPreMsg(c) ==
    /\ cpc[c] = "premsg"
    /\ IF calls[c].preOutcome = "raise"
       THEN Raise(c, "Exception", <<>>) /\ UNCHANGED trace
       ELSE Did(c, "preMsg") /\ Goto(c, follows("premsg")) /\ UNCHANGED out
    /\ UNCHANGED << rc, rc0, calls, loc >>
    /\ NoUtils

\* lines 91, 98-100
Compare(c) ==
    /\ cpc[c] = "compare"
    /\ Did(c, "_compare")
    /\ LET o == compareOutcome(calls[c])
           passed == [lower |-> loc[c].lower, upper |-> loc[c].upper,
                      sigma |-> loc[c].sigma]
       IN  IF o \in {"True", "False"}
           THEN /\ loc' = [loc EXCEPT ![c].areSimilar = (o = "True"),
                                      ![c].passed = << passed >>]
                /\ Goto(c, follows("compare"))
                /\ UNCHANGED out
           ELSE /\ loc' = [loc EXCEPT ![c].passed = << passed >>]
                /\ Raise(c, IF o = "raise" THEN "Exception" ELSE o, <<>>)
    /\ UNCHANGED << rc, rc0, calls >>
    /\ NoUtils

\* lines 93-96
RestoreReturn(c) ==
    /\ cpc[c] = "restore"
    /\ rc' = restored(rc, loc[c].previousVerb)
    /\ trace' = IF loc[c].previousVerb # "None"
                THEN [trace EXCEPT ![c] = Append(@, "restore")]
                ELSE trace
    /\ out' = [out EXCEPT ![c].returned = TRUE, ![c].ret = loc[c].areSimilar]
    /\ Goto(c, follows("restore"))
    /\ UNCHANGED << rc0, calls, loc >>
    /\ NoUtils

\* one call with any arguments, or two calls by two callers
InitCompare ==
    /\ fn = "compare" /\ args = << >> /\ pc = "done"
    /\ ret = FALSE /\ returned = FALSE /\ raised = "" /\ log = << >>
    /\ todo = {} /\ missing = << {}, {} >>
    /\ badTypes = << >> /\ badShapes = << >> /\ goodKeys = {}
    /\ rc0 \in RcLevels
    /\ rc = rc0
    /\ \/ \E c1 \in FullCalls : calls = << c1 >>
       \/ \E c1 \in PlainCalls, c2 \in PlainCalls : calls = << c1, c2 >>
    /\ cpc = [c \in DOMAIN calls |-> "start"]
    /\ loc = [c \in DOMAIN calls |->
                [upper |-> calls[c].upper, lower |-> calls[c].lower,
                 sigma |-> calls[c].sigma, previousVerb |-> "None",
                 areSimilar |-> FALSE, passed |-> << >>]]
    /\ out = [c \in DOMAIN calls |->
                [returned |-> FALSE, ret |-> FALSE, exc |-> "", names |-> << >>]]
    /\ trace = [c \in DOMAIN calls |-> << >>]
    /\ overlapped = FALSE

NextCompare ==
    \/ \E c \in DOMAIN calls : Convert(c)
    \/ \E c \in DOMAIN calls : OrderCheck(c)
    \/ \E c \in DOMAIN calls : NonNegCheck(c)
    \/ \E c \in DOMAIN calls : CheckCompareObj(c)
    \/ \E c \in DOMAIN calls : SaveVerbosity(c)
    \/ \E c \in DOMAIN calls : Override(c)
    \/ \E c \in DOMAIN calls : LogPreMsg(c)
    \/ \E c \in DOMAIN calls : Compare(c)
    \/ \E c \in DOMAIN calls : RestoreReturn(c)

SpecCompare == InitCompare /\ [][NextCompare]_vars

(***************************************************************************)
(* Properties of directCompare                                             *)
(***************************************************************************)
DCDone == fn = "directCompare" /\ pc = "done"

\* both arguments are int or float, or both are arrays
NumericPair ==
    \/ args.obj0.type \in {"int", "float"} /\ args.obj1.type \in {"int", "float"}
    \/ args.obj0.type = "ndarray" /\ args.obj1.type = "ndarray"

\* the single notification of a call that returned
Verdict == log[1].msg

\* relative percent difference of one element: |a - b| * 100 / a when a
\* exceeds 1e-8, |a - b| * 100 otherwise
RelDiff(a, b) ==
    LET d == Times100(fabs(Sub(a, b)))
    IN  IF Gt(a, Num(1, -8)) THEN Div(d, a) ELSE d

\* the relative percent differences of all elements of the two arguments
RelDiffs ==
    IF args.obj0.type = "ndarray"
    THEN {RelDiff(args.obj0.val[i], args.obj1.val[i]) : i \in DOMAIN args.obj0.val}
    ELSE {RelDiff(args.obj0.val, args.obj1.val)}

\* m is the largest relative percent difference
IsMetric(m) == m \in RelDiffs /\ \A x \in RelDiffs : Le(x, m)

\* C1: for numeric arguments the verdict follows the ordered ladder on the
\* largest element metric m: m < 1e-8 Identical, else m <= lower
\* AcceptableLow, else m >= upper OutsideTolerance (False), else
\* AcceptableHigh; elements with a reference at or below 1e-8 are not divided
C1_Ladder ==
    (DCDone /\ NumericPair) =>
        /\ returned /\ Len(log) = 1 /\ raised = ""
        /\ \A m \in RelDiffs : IsMetric(m) =>
             IF Lt(m, Num(1, -8)) THEN Verdict = "identical" /\ ret = TRUE
             ELSE IF Le(m, args.lower) THEN Verdict = "acceptableLow" /\ ret = TRUE
             ELSE IF Ge(m, args.upper) THEN Verdict = "outsideTols" /\ ret = FALSE
             ELSE Verdict = "acceptableHigh" /\ ret = TRUE

\* an array call whose largest metric comes from an undivided element
\* (reference -5e-11) while another element was divided (reference 2e-8)
C1_Witness ==
    /\ DCDone /\ args.obj0.type = "ndarray" /\ args.obj1.type = "ndarray"
    /\ Len(args.obj0.val) = 2
    /\ args.obj0.val[1] = Num(2000, -11) /\ args.obj1.val[1] = Num(2100, -11)
    /\ args.obj0.val[2] = Num(-5, -11) /\ args.obj1.val[2] = Num(5, -11)
    /\ args.lower = Num(0, 0) /\ args.upper = Num(10, 0)
    /\ Verdict = "acceptableHigh" /\ ret = TRUE

\* C2 as stated: a difference d >= upper always gives failure
C2_Original ==
    (DCDone /\ NumericPair) =>
        \A d \in RelDiffs : (IsMetric(d) /\ Ge(d, args.upper)) =>
            returned /\ ret = FALSE

\* C2 amended: a difference d >= upper that is also above lower and not
\* below 1e-8 gives failure with the OutsideTolerance verdict
C2_Amended ==
    (DCDone /\ NumericPair) =>
        \A d \in RelDiffs :
            (IsMetric(d) /\ Ge(d, args.upper) /\ Gt(d, args.lower)
                /\ Ge(d, Num(1, -8))) =>
                returned /\ ret = FALSE /\ Verdict = "outsideTols"

\* a difference of exactly upper = 5 percent, above lower, that failed
C2_Witness ==
    /\ DCDone /\ NumericPair
    /\ args.upper = Num(5, 0) /\ Lt(args.lower, args.upper)
    /\ \E d \in RelDiffs : IsMetric(d) /\ NumEq(d, args.upper)
    /\ returned /\ ret = FALSE /\ Verdict = "outsideTols"

\* C3 as stated: lower < d < upper always gives success with AcceptableHigh
C3_Original ==
    (DCDone /\ NumericPair) =>
        \A d \in RelDiffs :
            (IsMetric(d) /\ Lt(args.lower, d) /\ Lt(d, args.upper)) =>
                returned /\ ret = TRUE /\ Verdict = "acceptableHigh"

\* C3 amended: lower < d < upper with d not below 1e-8 gives success with
\* AcceptableHigh
C3_Amended ==
    (DCDone /\ NumericPair) =>
        \A d \in RelDiffs :
            (IsMetric(d) /\ Lt(args.lower, d) /\ Lt(d, args.upper)
                /\ Ge(d, Num(1, -8))) =>
                returned /\ ret = TRUE /\ Verdict = "acceptableHigh"

\* lower = 0, a reference that is not positive and a difference of exactly
\* 1e-8 percent: AcceptableHigh
C3_Witness ==
    /\ DCDone /\ NumericPair
    /\ args.lower = Num(0, 0) /\ Gt(args.upper, Num(1, -8))
    /\ args.obj0.type = "float" /\ Le(args.obj0.val, Num(0, 0))
    /\ \E d \in RelDiffs : IsMetric(d) /\ NumEq(d, Num(1, -8))
    /\ returned /\ ret = TRUE /\ Verdict = "acceptableHigh"

\* the two arguments are equal scalars or arrays equal in shape and values
EqualArgs ==
    IF args.obj0.type = "ndarray"
    THEN /\ args.obj1.type = "ndarray"
         /\ Len(args.obj0.val) = Len(args.obj1.val)
         /\ \A i \in DOMAIN args.obj0.val :
                NumEq(args.obj0.val[i], args.obj1.val[i])
    ELSE /\ args.obj0.type \in {"int", "float"}
         /\ args.obj1.type \in {"int", "float"}
         /\ NumEq(args.obj0.val, args.obj1.val)

\* C4: equal scalars and arrays equal in shape and values give True with the
\* Identical verdict for every valid tolerance pair
C4_Identical ==
    (DCDone /\ NumericPair /\ EqualArgs) =>
        returned /\ ret = TRUE /\ Len(log) = 1 /\ Verdict = "identical"

\* equal arrays of two elements compared with lower = upper = 0
C4_Witness ==
    /\ DCDone /\ NumericPair /\ EqualArgs
    /\ args.obj0.type = "ndarray" /\ Len(args.obj0.val) = 2
    /\ args.obj0.val[1] = Num(2000, -11)
    /\ args.lower = Num(0, 0) /\ args.upper = Num(0, 0)
    /\ ret = TRUE /\ Verdict = "identical"

\* element i is the only one that differs
OnlyOutlier(i) ==
    \A j \in DOMAIN args.obj0.val :
        j # i => args.obj0.val[j] = args.obj1.val[j]

\* C5 as stated: one element differing by more than upper percent, all
\* others identical, fails the comparison
C5_Original ==
    (DCDone /\ args.obj0.type = "ndarray" /\ args.obj1.type = "ndarray") =>
        \A i \in DOMAIN args.obj0.val :
            (OnlyOutlier(i)
                /\ Gt(RelDiff(args.obj0.val[i], args.obj1.val[i]), args.upper)) =>
                returned /\ ret = FALSE

\* C5 amended: one element differing by more than upper percent and by at
\* least 1e-8 percent, all others identical, fails the comparison
C5_Amended ==
    (DCDone /\ args.obj0.type = "ndarray" /\ args.obj1.type = "ndarray") =>
        \A i \in DOMAIN args.obj0.val :
            (OnlyOutlier(i)
                /\ Gt(RelDiff(args.obj0.val[i], args.obj1.val[i]), args.upper)
                /\ Ge(RelDiff(args.obj0.val[i], args.obj1.val[i]), Num(1, -8))) =>
                returned /\ ret = FALSE /\ Verdict = "outsideTols"

\* the outlier is the last of two elements, its reference is zero
C5_Witness ==
    /\ DCDone /\ args.obj0.type = "ndarray" /\ args.obj1.type = "ndarray"
    /\ Len(args.obj0.val) = 2 /\ OnlyOutlier(2)
    /\ args.obj0.val[2] = Num(0, -11)
    /\ Gt(RelDiff(args.obj0.val[2], args.obj1.val[2]), args.upper)
    /\ args.upper = Num(1, -8)
    /\ ret = FALSE /\ Verdict = "outsideTols"

\* the call has passed the type check of directCompare
DCChecked == fn = "directCompare" /\ pc # "start"

\* the call ended in the type check with the DifferentTypes verdict
EndedDifferentTypes ==
    /\ pc = "done" /\ returned /\ ret = FALSE /\ raised = ""
    /\ log = << [msg |-> "differentTypes"] >>

\* the call went on past the type check without a DifferentTypes verdict
WentOn ==
    \/ pc = "branch" /\ log = <<>> /\ ~returned
    \/ pc = "done" /\ returned /\ Len(log) = 1 /\ Verdict # "differentTypes"
    \/ pc = "done" /\ ~returned /\ log = <<>> /\ raised = "TypeError"

\* C6 as stated: DifferentTypes exactly when neither value is int or float
\* and the types differ; every other call goes on to the string or numeric
\* branch
C6_Original ==
    DCChecked =>
        IF /\ args.obj0.type \notin {"int", "float"}
           /\ args.obj1.type \notin {"int", "float"}
           /\ args.obj0.type # args.obj1.type
        THEN EndedDifferentTypes
        ELSE WentOn /\ raised = ""

\* C6 amended: DifferentTypes (False, before any comparison) exactly when
\* at least one value is not int or float and the types differ; every other
\* call goes on to the string branch, the numeric branch or the TypeError
C6_Amended ==
    DCChecked =>
        IF /\ ~(args.obj0.type \in {"int", "float"}
                    /\ args.obj1.type \in {"int", "float"})
           /\ args.obj0.type # args.obj1.type
        THEN EndedDifferentTypes
        ELSE WentOn

\* an int compared with a float reached the numeric branch
C6_Witness ==
    /\ fn = "directCompare" /\ pc = "done"
    /\ args.obj0.type = "int" /\ args.obj1.type = "float"
    /\ returned /\ Verdict \in {"identical", "acceptableLow",
                                "acceptableHigh", "outsideTols"}

\* the types directCompare supports
Supported == {"str", "int", "float", "ndarray"}

\* C7: a value of a type outside str, int, float, array makes the call
\* raise TypeError, without return value and without notification
C7_Unsupported ==
    (DCDone /\ (args.obj0.type \notin Supported
                    \/ args.obj1.type \notin Supported)) =>
        raised = "TypeError" /\ ~returned /\ log = <<>>

\* C8 as stated: a returning call emits one notification, one of the five
\* verdicts, and returns True exactly for Identical, AcceptableLow and
\* AcceptableHigh
C8_Original ==
    (DCDone /\ returned) =>
        /\ Len(log) = 1
        /\ Verdict \in {"identical", "acceptableLow", "acceptableHigh",
                        "outsideTols", "differentTypes"}
        /\ ret = TRUE <=> Verdict \in {"identical", "acceptableLow",
                                       "acceptableHigh"}
        /\ ret = FALSE <=> Verdict \in {"outsideTols", "differentTypes"}

\* C8 amended: a returning call emits one notification, one of the five
\* verdicts or NotIdentical, and returns True exactly for Identical,
\* AcceptableLow and AcceptableHigh, False exactly for OutsideTolerance,
\* DifferentTypes and NotIdentical
C8_Amended ==
    (DCDone /\ returned) =>
        /\ Len(log) = 1
        /\ Verdict \in {"identical", "acceptableLow", "acceptableHigh",
                        "outsideTols", "differentTypes", "notIdentical"}
        /\ ret = TRUE <=> Verdict \in {"identical", "acceptableLow",
                                       "acceptableHigh"}
        /\ ret = FALSE <=> Verdict \in {"outsideTols", "differentTypes",
                                        "notIdentical"}

\* two different strings were compared
C8_Witness ==
    /\ DCDone /\ returned
    /\ args.obj0.type = "str" /\ args.obj1.type = "str"
    /\ args.obj0.val # args.obj1.val
    /\ ret = FALSE /\ Len(log) = 1

(***************************************************************************)
(* Properties of getCommonKeys                                             *)
(***************************************************************************)
CKDone == fn = "getCommonKeys" /\ pc = "done"

\* the key set of a collection: the keys of a dict, the items of an iterable
KeysIn(d) ==
    {k \in Keys : IF d.type = "dict" THEN k \in DOMAIN d.val
                  ELSE \E i \in 1..Len(d.val) : d.val[i] = k}

\* C9: getCommonKeys returns the intersection of the two key sets, never
\* raises, emits one missing-keys notification naming the keys only in the
\* first and the keys only in the second when the key sets differ, and none
\* when they are equal
C9_CommonKeys ==
    CKDone =>
        LET K0 == KeysIn(args.d0)
            K1 == KeysIn(args.d1)
        IN  /\ returned /\ raised = ""
            /\ ret = {k \in Keys : k \in K0 /\ k \in K1}
            /\ IF K0 = K1 THEN log = <<>>
               ELSE log = << [msg |-> "logMissingKeys",
                              in0 |-> {k \in K0 : k \notin K1},
                              in1 |-> {k \in K1 : k \notin K0}] >>

\* a dict and a list with a repeated key, each with a key the other lacks
C9_Witness ==
    /\ CKDone
    /\ args.d0.type = "dict" /\ args.d1.type = "list"
    /\ DOMAIN args.d0.val = {"a", "b"}
    /\ args.d1.val = << "b", "b" >>
    /\ ret = {"b"}
    /\ Len(log) = 1 /\ log[1].in0 = {"a"} /\ log[1].in1 = {}

(***************************************************************************)
(* Properties of getKeyMatchingShapes                                      *)
(***************************************************************************)
KSDone == fn = "getKeyMatchingShapes" /\ pc = "done"

\* key k is present in both maps with values of one type and, for arrays,
\* of one shape
Accepted(k) ==
    /\ k \in DOMAIN args.map0 /\ k \in DOMAIN args.map1
    /\ args.map0[k].type = args.map1[k].type
    /\ (args.map0[k].type = "ndarray" /\ args.map1[k].type = "ndarray")
            => args.map0[k].shape = args.map1[k].shape

\* C10: getKeyMatchingShapes returns the keys of keySet that are present in
\* both maps with equal types and, for arrays, equal shapes, and nothing else
C10_MatchingShapes ==
    KSDone =>
        /\ returned /\ raised = ""
        /\ ret \subseteq args.keySet
        /\ \A k \in args.keySet : k \in ret <=> Accepted(k)

\* one key accepted, one key rejected for arrays of different shape
C10_Witness ==
    /\ KSDone
    /\ args.keySet = {"", "a", "b"}
    /\ DOMAIN args.map0 = {"", "a"} /\ DOMAIN args.map1 = {"", "a"}
    /\ args.map0["a"] = [type |-> "ndarray", shape |-> <<2>>]
    /\ args.map1["a"] = [type |-> "ndarray", shape |-> <<3>>]
    /\ args.map0[""].type = "ndarray" /\ args.map1[""] = args.map0[""]
    /\ ret = {""}

\* number of notifications of kind m raised so far
Count(m) == Cardinality({i \in 1..Len(log) : log[i].msg = m})

\* some key of keySet is absent from one of the maps
SomeKeyMissing ==
    \E k \in args.keySet : k \notin DOMAIN args.map0 \/ k \notin DOMAIN args.map1

\* C11: when a key of keySet is absent from map0 or map1, whatever the key,
\* getKeyMatchingShapes does not raise, emits exactly one missing-keys
\* notification and still returns the accepted keys
C11_MissingReported ==
    (KSDone /\ SomeKeyMissing) =>
        /\ raised = "" /\ returned
        /\ Count("logMissingKeys") = 1
        /\ ret = {k \in args.keySet : Accepted(k)}

\* some key of keySet has values of different types in the two maps
SomeBadType ==
    \E k \in args.keySet :
        /\ k \in DOMAIN args.map0 /\ k \in DOMAIN args.map1
        /\ args.map0[k].type # args.map1[k].type

\* some key of keySet has arrays of different shapes in the two maps
SomeBadShape ==
    \E k \in args.keySet :
        /\ k \in DOMAIN args.map0 /\ k \in DOMAIN args.map1
        /\ args.map0[k].type = "ndarray" /\ args.map1[k].type = "ndarray"
        /\ args.map0[k].shape # args.map1[k].shape

\* position of a notification in the trailing report
Rank(m) ==
    CASE m = "logMissingKeys" -> 1
      [] m = "logBadTypes" -> 2
      [] m = "logBadShapes" -> 3
      [] OTHER -> 0

\* C12: getKeyMatchingShapes emits nothing while keys are left to process;
\* afterwards at most three notifications, in the order missing keys, type
\* mismatches, shape mismatches, the type report once iff some key had
\* differing types and the shape report once iff some key had arrays of
\* differing shapes
C12_Batched ==
    (fn = "getKeyMatchingShapes") =>
        /\ (todo # {} \/ pc # "done") => log = <<>>
        /\ Len(log) <= 3
        /\ \A i \in 1..Len(log) : Rank(log[i].msg) > 0
        /\ \A i \in 1..Len(log) : \A j \in 1..Len(log) :
                i < j => Rank(log[i].msg) < Rank(log[j].msg)
        /\ pc = "done" =>
            /\ Count("logBadTypes") = (IF SomeBadType THEN 1 ELSE 0)
            /\ Count("logBadShapes") = (IF SomeBadShape THEN 1 ELSE 0)

\* a call over three keys that ended with all three reports
C12_Witness ==
    /\ KSDone
    /\ args.keySet = {"", "a", "b"}
    /\ Len(log) = 3
    /\ log[1].msg = "logMissingKeys"
    /\ log[2].msg = "logBadTypes" /\ log[2].keys = {""}
    /\ log[3].msg = "logBadShapes" /\ log[3].keys = {"a"}

(***************************************************************************)
(* Properties of BaseObject.compare                                        *)
(***************************************************************************)
\* exactly one call is made
Single == DOMAIN calls = {1}

CDone(c) == cpc[c] = "done"

Negative(x) == Lt(x.val, Num(0, 0))

\* the tolerances given to call c are out of order or negative
InvalidTols(c) ==
    \/ Lt(calls[c].upper.val, calls[c].lower.val)
    \/ Negative(calls[c].lower)
    \/ Negative(calls[c].upper)

Ancestors(cls) ==
    CASE cls = "BaseObject" -> {"BaseObject", "object"}
      [] cls = "NamedObject" -> {"NamedObject", "BaseObject", "object"}
      [] cls = "DetectorBase" ->
            {"DetectorBase", "NamedObject", "BaseObject", "object"}
      [] cls = "Reader" -> {"Reader", "BaseObject", "object"}
      [] cls = "str" -> {"str", "object"}
      [] OTHER -> {"object"}

\* C14: with valid tolerances compare raises TypeError, naming the class of
\* other and the class of self, exactly when the class of other is neither
\* the class of self nor derived from it; a strict superclass is rejected,
\* the swapped call is accepted
C14_ClassCheck ==
    \A c \in DOMAIN calls :
        (CDone(c) /\ ~InvalidTols(c)) =>
            /\ out[c].exc = "TypeError"
                    <=> calls[c].self \notin Ancestors(calls[c].other)
            /\ out[c].exc = "TypeError"
                    => out[c].names = << calls[c].other, calls[c].self >>
            /\ (calls[c].self = "NamedObject" /\ calls[c].other = "BaseObject")
                    => out[c].exc = "TypeError"
            /\ (calls[c].self = "BaseObject" /\ calls[c].other = "NamedObject")
                    => out[c].exc # "TypeError"

\* a NamedObject compared against a BaseObject was rejected
C14_Witness ==
    /\ Single /\ CDone(1) /\ ~InvalidTols(1)
    /\ calls[1].self = "NamedObject" /\ calls[1].other = "BaseObject"
    /\ out[1].exc = "TypeError"
    /\ out[1].names = << "BaseObject", "NamedObject" >>

\* C15: after a call with a verbosity override has ended, by a return or by
\* an exception, rc['verbosity'] equals its value before the call
C15_Restored ==
    (Single /\ CDone(1) /\ calls[1].verbosity # "None") => rc = rc0

\* C16: two calls that run one after the other and both return leave
\* rc['verbosity'] at its initial value (calls that interleave need not,
\* see C16_Witness)
C16_Serialized ==
    (DOMAIN calls = {1, 2} /\ CDone(1) /\ CDone(2)
        /\ out[1].returned /\ out[2].returned /\ ~overlapped) => rc = rc0

\* two overriding calls interleaved: the second saved the override of the
\* first, both returned, and rc['verbosity'] is left at that override
C16_Witness ==
    /\ DOMAIN calls = {1, 2} /\ CDone(1) /\ CDone(2)
    /\ out[1].returned /\ out[2].returned /\ overlapped
    /\ calls[1].verbosity # "None" /\ calls[2].verbosity # "None"
    /\ loc[1].previousVerb = rc0
    /\ loc[2].previousVerb = calls[1].verbosity
    /\ rc = calls[1].verbosity /\ rc # rc0

\* the steps of a call that returns, in order
FullTrace ==
    << "orderCheck", "nonNegCheck", "classCheck", "override", "preMsg",
       "_compare", "restore" >>

PlainTrace ==
    << "orderCheck", "nonNegCheck", "classCheck", "preMsg", "_compare" >>

Expected(c) == IF calls[c].verbosity # "None" THEN FullTrace ELSE PlainTrace

IsPrefix(t, u) == Len(t) <= Len(u) /\ \A i \in 1..Len(t) : t[i] = u[i]

Happened(c, event) == \E i \in 1..Len(trace[c]) : trace[c][i] = event

\* C17: the steps of a call occur in the order tolerance ordering check,
\* non-negativity check, class check, verbosity override, one preamble log,
\* one _compare invocation, verbosity restore; when the tolerances are
\* invalid or other is incompatible there is no preamble, no _compare and
\* no change of rc['verbosity']; invalid tolerances together with an
\* incompatible other raise ValueError; the value returned is the value
\* _compare returned
C17_Order ==
    \A c \in DOMAIN calls :
        /\ IsPrefix(trace[c], Expected(c))
        /\ out[c].returned =>
            /\ trace[c] = Expected(c)
            /\ calls[c].cmpOutcome \in {"True", "False"}
            /\ out[c].ret = (calls[c].cmpOutcome = "True")
        /\ (InvalidTols(c) \/ calls[c].self \notin Ancestors(calls[c].other)) =>
            /\ ~Happened(c, "preMsg") /\ ~Happened(c, "_compare")
            /\ ~Happened(c, "override")
            /\ Single => rc = rc0
            /\ CDone(c) => out[c].exc \in {"ValueError", "TypeError"}
        /\ (CDone(c) /\ InvalidTols(c)
                /\ calls[c].self \notin Ancestors(calls[c].other)) =>
            out[c].exc = "ValueError"

\* a call with an override went through all seven steps and returned what
\* _compare returned
C17_Witness ==
    /\ Single /\ CDone(1) /\ out[1].returned
    /\ calls[1].verbosity = "debug" /\ calls[1].cmpOutcome = "False"
    /\ trace[1] = FullTrace
    /\ out[1].ret = FALSE /\ rc = rc0

====
